---- MODULE Spec2Model ----
(***************************************************************************)
(* A model of the test-result reporting pipeline of selenium-auto:         *)
(*   run_tests.py                  the run orchestrator (TestRunner, main) *)
(*   scripts/generate_dashboard.py the dashboard renderer                  *)
(*   tests/conftest.py             the session-finish hook (summary file)  *)
(*   tests/test_aqx_platform.py    TestReporter (the result collector)     *)
(*                                                                         *)
(* The specifications share the variables:                                 *)
(*   SpecRun       main() of run_tests.py, step by step                    *)
(*   SpecDash      main() of generate_dashboard.py over varied artifacts   *)
(*   SpecMetrics   the same script over varied summary documents           *)
(*   SpecReporter  TestReporter.add_result / generate_report               *)
(*   SpecSession   pytest_sessionfinish over the engine's tallies          *)
(*   SpecShots     the script over varied numbers of screenshot files      *)
(*   SpecRerun     the script run again and again over the same files      *)
(*   SpecSuite     one engine session: every test method, then the hook    *)
(*   SpecEngine    the controller and worker processes of one invocation   *)
(*   SpecSessions  engine sessions one after another in one directory      *)
(*   SpecTrading   AQXTradingPage.place_buy_order / place_sell_order       *)
(*   SpecStyles    the result rows of the dashboard over varied statuses   *)
(***************************************************************************)
EXTENDS Integers, Sequences, FiniteSets, TLC

VARIABLES
    \* ---- run_tests.py: the orchestrator process
    pc,          \* position in main() / TestRunner.run_tests
    args,        \* the parsed command line
    osenv,       \* os.environ of the orchestrator process (HEADLESS, BROWSER)
    cwd,         \* working directory the orchestrator was started from
    cmd,         \* the engine command line built by run_tests
    env,         \* the environment handed to the engine
    result,      \* outcome of subprocess.run(cmd, ...)
    success,     \* value returned by run_tests
    exit_code,   \* process exit code of run_tests.py
    stdout,      \* what the orchestrator printed, in order
    \* ---- the filesystem: per directory, the report artifacts below it
    fs,
    \* ---- wall clock, in seconds
    clock,
    \* ---- scripts/generate_dashboard.py run as a process of its own
    dpc,         \* position in main() of the script
    loaded,      \* value of load_test_results()
    html,        \* value of generate_dashboard_html(results)
    \* ---- TestReporter
    rpc,         \* "live" while the collector exists
    results,     \* self.results
    start_time,  \* self.start_time
    report,      \* the last value returned by generate_report
    \* ---- the engine's session object at pytest_sessionfinish
    spc,
    testscollected,
    testsfailed,
    exitstatus,
    \* ---- one test method of the suite, as the engine executes it
    tpc,         \* position in setup_method / the test method / teardown_method
    raising,     \* TRUE while an exception propagates out of the test method
    outcomes,    \* the engine's outcome of every test method executed so far
    \* ---- the processes of one engine invocation
    ppc,         \* per process: "absent", "running" or "finished"
    writers,     \* the processes that have opened reports/test_summary.json for writing
    \* ---- AQXTradingPage
    mock_orders, \* self.mock_orders
    order_result \* the last value returned by place_buy_order / place_sell_order

runVars  == <<pc, args, osenv, cwd, cmd, env, result, success, exit_code, stdout>>
dashVars == <<dpc, loaded, html>>
repVars  == <<rpc, results, start_time, report>>
sessVars == <<spc, testscollected, testsfailed, exitstatus>>
suiteVars == <<tpc, raising, outcomes>>
engVars  == <<ppc, writers>>
tradeVars == <<mock_orders, order_result>>
vars     == <<runVars, fs, clock, dashVars, repVars, sessVars, suiteVars, engVars, tradeVars>>

(***************************************************************************)
(* Bounds of the model.                                                    *)
(***************************************************************************)
MaxCount      == 9   \* largest count in a summary document (SpecMetrics, SpecSession)
MaxDetails    == 3   \* longest detail list
MaxResults    == 4   \* most add_result calls on one collector
MaxRunTests   == 1   \* largest engine tally in SpecRun
MaxReturnCode == 2   \* largest engine exit code in SpecRun
MaxClock      == 1   \* last clock second
MaxShots      == 15  \* most screenshot files in the screenshot directory (SpecShots)
MaxSuiteTests == 3   \* most test methods the engine executes in one session (SpecSuite)
MaxWorkers    == 2   \* most worker processes of a parallel engine invocation (SpecEngine)
MaxSessions   == 3   \* most engine sessions completed one after another (SpecSessions)
MaxOrders     == 3   \* most orders placed on one trading page (SpecTrading)
MaxStyled     == 2   \* longest detail list in SpecStyles

Min(a, b) == IF a < b THEN a ELSE b

(***************************************************************************)
(* Text conversions: str(int) and the format spec ".1f".                   *)
(***************************************************************************)
Digits == <<"0", "1", "2", "3", "4", "5", "6", "7", "8", "9">>

RECURSIVE NatStr(_)
NatStr(n) == IF n < 10 THEN Digits[n + 1]
             ELSE NatStr(n \div 10) \o Digits[(n % 10) + 1]

\* str(n) of a Python int, as an f-string renders {n}
IntStr(n) == IF n < 0 THEN "-" \o NatStr(0 - n) ELSE NatStr(n)

\* The processes of one engine invocation: the process run_tests.py starts,
\* and under "-n auto" the workers gw0, gw1, ... that process spawns.
WorkerProcs == {"gw" \o NatStr(i - 1) : i \in 1..MaxWorkers}
Procs == {"controller"} \cup WorkerProcs

\* A Python number kept exact: num / den with den > 0.
Rat(n, d) == [num |-> n, den |-> d]

\* tenths of |r|, truncated
TruncTenths(r) ==
    LET a == IF r.num < 0 THEN 0 - r.num ELSE r.num
    IN  (a * 10) \div r.den

\* tenths of |r|, rounded half to even as format(x, ".1f") rounds.  The
\* float passed / total * 100 lies within 1e-13 of the exact quotient, and
\* the quotient of counts below 16 is never a tie (a tie needs 16 | total),
\* so rounding the exact value is rounding the float.
RoundTenths(r) ==
    LET a == IF r.num < 0 THEN 0 - r.num ELSE r.num
        q == (a * 10) \div r.den
        m == (a * 10) % r.den
    IN  IF 2 * m > r.den THEN q + 1
        ELSE IF 2 * m = r.den THEN q + (q % 2)
        ELSE q

\* f"{x:.1f}"
Format1f(r) ==
    LET t == RoundTenths(r)
    IN  (IF r.num < 0 THEN "-" ELSE "") \o NatStr(t \div 10) \o "." \o Digits[(t % 10) + 1]

(***************************************************************************)
(* JSON documents.  An object is a record with the set of keys it holds;   *)
(* the field of a key it does not hold is 0 / "" and is never read.        *)
(***************************************************************************)
Get(obj, key, default) == IF key \in obj.keys THEN obj[key] ELSE default

SummaryKeys == {"total_tests", "passed", "failed", "exit_status", "end_time"}

EmptySummary ==
    [keys |-> {}, total_tests |-> 0, passed |-> 0, failed |-> 0,
     exit_status |-> 0, end_time |-> 0]

\* A file: absent, present with a document json.load accepts, or present
\* and not parseable.
AbsentFile(doc)  == [exists |-> FALSE, valid |-> FALSE, doc |-> doc]
CorruptFile(doc) == [exists |-> TRUE, valid |-> FALSE, doc |-> doc]
JsonFile(doc)    == [exists |-> TRUE, valid |-> TRUE, doc |-> doc]

\* A directory of artifact files: absent, or present with its files in the
\* order glob() yields them.
AbsentDir     == [exists |-> FALSE, files |-> <<>>]
DirOf(files)  == [exists |-> TRUE, files |-> files]

\* The "summary" object of the detail document.
NoReportSummary ==
    [total_tests |-> 0, passed |-> 0, failed |-> 0, pass_rate |-> "",
     start_time |-> 0, end_time |-> 0, duration |-> ""]

\* The detail document: {"summary": ..., "test_results": [...]}.
EmptyReport == [keys |-> {}, summary |-> NoReportSummary, test_results |-> <<>>]

\* No document.
NoHtml ==
    [raised |-> FALSE, total_tests |-> 0, passed |-> 0, failed |-> 0,
     pass_rate |-> Rat(0, 1), metrics |-> <<>>, test_items |-> <<>>,
     screenshots_section |-> FALSE, screenshot_items |-> <<>>, generated |-> 0,
     results_chart |-> <<>>, categories_chart |-> <<>>]

EmptyTree ==
    [summary    |-> AbsentFile(EmptySummary),
     report     |-> AbsentFile(EmptyReport),
     reports    |-> FALSE,
     screenshots |-> AbsentDir,
     logs       |-> AbsentDir,
     dashboard  |-> [exists |-> FALSE, html |-> NoHtml]]

Dirs == {"base", "other"}

(***************************************************************************)
(* scripts/generate_dashboard.py                                           *)
(***************************************************************************)

\* load_test_results without its exists() checks: open() raises on a
\* missing file
load_test_results_unchecked(tree) ==
    LET summary_raises == ~(tree.summary.exists /\ tree.summary.valid)
        report_raises  == ~(tree.report.exists /\ tree.report.valid)
    IN  [raised |-> summary_raises \/ report_raises,
         summary |-> IF ~summary_raises THEN tree.summary.doc ELSE EmptySummary,
         test_details |-> IF ~summary_raises /\ ~report_raises
                          THEN Get(tree.report.doc, "test_results", <<>>)
                          ELSE <<>>,
         screenshots |-> IF tree.screenshots.exists /\ ~summary_raises /\ ~report_raises
                         THEN tree.screenshots.files ELSE <<>>,
         logs |-> IF tree.logs.exists /\ ~summary_raises /\ ~report_raises
                  THEN tree.logs.files ELSE <<>>]

\* load_test_results(): every path is relative to the working directory of
\* the script, whose artifact tree is `tree`.  json.load raises on a file
\* that exists and does not parse; nothing in the function catches it.
load_test_results(tree) ==
    LET summary_raises == tree.summary.exists /\ ~tree.summary.valid
        report_raises  == tree.report.exists /\ ~tree.report.valid
    IN  [raised |-> summary_raises \/ report_raises,
         summary |-> IF tree.summary.exists /\ tree.summary.valid
                     THEN tree.summary.doc ELSE EmptySummary,
         test_details |-> IF tree.report.exists /\ tree.report.valid
                                /\ ~summary_raises
                          THEN Get(tree.report.doc, "test_results", <<>>)
                          ELSE <<>>,
         screenshots |-> IF tree.screenshots.exists /\ ~summary_raises /\ ~report_raises
                         THEN tree.screenshots.files ELSE <<>>,
         logs |-> IF tree.logs.exists /\ ~summary_raises /\ ~report_raises
                  THEN tree.logs.files ELSE <<>>]

\* a / b of two Python ints: ZeroDivisionError when b = 0
TrueDiv(a, b) ==
    IF b = 0 THEN [raised |-> TRUE, value |-> Rat(0, 1)]
    ELSE [raised |-> FALSE,
          value |-> IF b < 0 THEN Rat(0 - a, 0 - b) ELSE Rat(a, b)]

pass_rate_guard_ge(total_tests) == total_tests >= 0

\* the guard of line 63: `if total_tests > 0`
pass_rate_guard(total_tests) == total_tests > 0

\* pass_rate = (passed / total_tests * 100) if total_tests > 0 else 0
pass_rate(total_tests, passed) ==
    IF pass_rate_guard(total_tests) THEN TrueDiv(passed * 100, total_tests)
    ELSE [raised |-> FALSE, value |-> Rat(0, 1)]

SCREENSHOT_LIMIT == 12

\* screenshots[-12:], the last twelve
screenshots_slice_last(screenshots) ==
    SubSeq(screenshots, Len(screenshots) - Min(Len(screenshots), SCREENSHOT_LIMIT) + 1,
           Len(screenshots))

\* screenshots[:12], the slice the gallery loop iterates over
screenshots_slice(screenshots) ==
    SubSeq(screenshots, 1, Min(Len(screenshots), SCREENSHOT_LIMIT))

\* the passed style for everything but "FAILED"
status_class_not_failed(status) ==
    IF status = "FAILED" THEN "status-failed" ELSE "status-passed"

\* "status-passed" if status == "PASSED" else "status-failed"
status_class(status) == IF status = "PASSED" THEN "status-passed" ELSE "status-failed"

\* one <div class="test-item"> of the loop over test_details
test_item(test) ==
    LET test_name == Get(test, "test_name", "Unknown Test")
        status    == Get(test, "status", "UNKNOWN")
    IN  [test_name |-> test_name, status |-> status,
         status_class |-> status_class(status)]

RECURSIVE unique_by_name(_, _)
\* the records of `tests` whose name is not in `seen` nor earlier in `tests`
unique_by_name(tests, seen) ==
    IF tests = <<>> THEN <<>>
    ELSE LET name == Get(Head(tests), "test_name", "Unknown Test")
         IN  IF name \in seen THEN unique_by_name(Tail(tests), seen)
             ELSE <<Head(tests)>> \o unique_by_name(Tail(tests), seen \cup {name})

test_items_unique(test_details) ==
    LET u == unique_by_name(test_details, {})
    IN  [i \in 1..Len(u) |-> test_item(u[i])]

\* for test in test_details: html_content += <div class="test-item">...
test_items(test_details) ==
    [i \in 1..Len(test_details) |-> test_item(test_details[i])]

\* the four metric cards, in document order
metric_cards(total_tests, passed, failed, rate) ==
    <<IntStr(total_tests), IntStr(passed), IntStr(failed), Format1f(rate) \o "%">>

\* the function with the clock second also put into every image URL
generate_dashboard_html_stamped(res, now) ==
    LET summary      == res.summary
        test_details == res.test_details
        screenshots  == res.screenshots
        total_tests  == Get(summary, "total_tests", 0)
        passed       == Get(summary, "passed", 0)
        failed       == Get(summary, "failed", 0)
        rate         == pass_rate(total_tests, passed)
        shown        == screenshots_slice(screenshots)
    IN  [raised |-> rate.raised,
         total_tests |-> total_tests, passed |-> passed, failed |-> failed,
         pass_rate |-> rate.value,
         metrics |-> IF rate.raised THEN <<>>
                     ELSE metric_cards(total_tests, passed, failed, rate.value),
         test_items |-> IF rate.raised THEN <<>>
                        ELSE test_items(test_details),
         screenshots_section |-> ~rate.raised /\ screenshots # <<>>,
         screenshot_items |-> IF rate.raised THEN <<>>
                              ELSE [i \in 1..Len(shown) |-> shown[i] \o "?t=" \o IntStr(now)],
         generated |-> IF rate.raised THEN 0 ELSE now,
         results_chart |-> IF rate.raised THEN <<>> ELSE <<IntStr(passed), IntStr(failed)>>,
         categories_chart |-> IF rate.raised THEN <<>> ELSE <<2, 4, 4, 2>>]

\* generate_dashboard_html(results) at clock second `now`: the document, by
\* its parts in document order, with the locals the metrics are computed
\* from.  `raised` is an exception leaving the function.
generate_dashboard_html(res, now) ==
    LET summary      == res.summary
        test_details == res.test_details
        screenshots  == res.screenshots
        total_tests  == Get(summary, "total_tests", 0)
        passed       == Get(summary, "passed", 0)
        failed       == Get(summary, "failed", 0)
        rate         == pass_rate(total_tests, passed)
    IN  [raised |-> rate.raised,
         total_tests |-> total_tests, passed |-> passed, failed |-> failed,
         pass_rate |-> rate.value,
         metrics |-> IF rate.raised THEN <<>>
                     ELSE metric_cards(total_tests, passed, failed, rate.value),
         test_items |-> IF rate.raised THEN <<>>
                        ELSE test_items(test_details),
         screenshots_section |-> ~rate.raised /\ screenshots # <<>>,
         screenshot_items |-> IF rate.raised THEN <<>>
                              ELSE screenshots_slice(screenshots),
         generated |-> IF rate.raised THEN 0 ELSE now,
         results_chart |-> IF rate.raised THEN <<>> ELSE <<IntStr(passed), IntStr(failed)>>,
         categories_chart |-> IF rate.raised THEN <<>> ELSE <<2, 4, 4, 2>>]

\* main() of the script in the tree `tree`: exit code and the tree it leaves.
\* An uncaught exception ends the process with code 1 before the write.
dashboard_main(tree, now) ==
    LET made == [tree EXCEPT !.reports = TRUE]
        res  == load_test_results(made)
        doc  == generate_dashboard_html(res, now)
    IN  IF res.raised \/ doc.raised
        THEN [returncode |-> 1, tree |-> made]
        ELSE [returncode |-> 0,
              tree |-> [made EXCEPT !.dashboard = [exists |-> TRUE, html |-> doc]]]

(***************************************************************************)
(* tests/conftest.py: the session-finish hook                              *)
(***************************************************************************)

\* passed = session.testscollected - session.testsfailed
session_passed(collected, failed) == collected - failed

\* the summary dict of pytest_sessionfinish
session_summary(collected, failed, status, now) ==
    [keys |-> SummaryKeys,
     total_tests |-> collected,
     passed |-> session_passed(collected, failed),
     failed |-> failed,
     exit_status |-> status,
     end_time |-> now]

\* the file opened with mode "a": a second document after the first is not
\* a JSON document any more
write_summary_append(tree, doc) ==
    IF tree.reports
    THEN [tree EXCEPT !.summary = IF @.exists THEN CorruptFile(@.doc) ELSE JsonFile(doc)]
    ELSE tree

\* open("reports/test_summary.json", "w") + json.dump in the tree `tree`:
\* the file is replaced; without the reports directory open() raises.
write_summary(tree, doc) ==
    IF tree.reports THEN [tree EXCEPT !.summary = JsonFile(doc)] ELSE tree

(***************************************************************************)
(* tests/test_aqx_platform.py: TestReporter                                *)
(***************************************************************************)

\* the record add_result appends (details is a free-form payload nothing
\* in the pipeline reads; it is left out)
result_record(test_name, status, now) ==
    [keys |-> {"test_name", "status", "details", "timestamp", "duration"},
     test_name |-> test_name, status |-> status,
     timestamp |-> now, duration |-> now]

\* a count that ignores the status
count_any(rs, status) == Len(rs)

RECURSIVE count_status(_, _)
\* len([r for r in self.results if r["status"] == status])
count_status(rs, status) ==
    IF rs = <<>> THEN 0
    ELSE (IF Head(rs).status = status THEN 1 ELSE 0) + count_status(Tail(rs), status)

\* the "pass_rate" string of the report summary
report_pass_rate(rs, passed) ==
    IF rs # <<>> THEN Format1f(Rat(passed * 100, Len(rs))) \o "%" ELSE "0%"

\* a report whose pass rate is taken per second of the run so far
build_report_per_second(rs, started, now) ==
    LET passed == count_status(rs, "PASSED")
        failed == count_status(rs, "FAILED")
    IN  [keys |-> {"summary", "test_results"},
         summary |-> [total_tests |-> Len(rs),
                      passed |-> passed,
                      failed |-> failed,
                      pass_rate |-> IF rs # <<>> /\ now > started
                                    THEN Format1f(Rat(passed * 100, Len(rs) * (now - started))) \o "%"
                                    ELSE "0%",
                      start_time |-> started,
                      end_time |-> now,
                      duration |-> IntStr(now - started) \o ".00s"],
         test_results |-> rs]

\* the dict built by generate_report
build_report(rs, started, now) ==
    LET passed == count_status(rs, "PASSED")
        failed == count_status(rs, "FAILED")
    IN  [keys |-> {"summary", "test_results"},
         summary |-> [total_tests |-> Len(rs),
                      passed |-> passed,
                      failed |-> failed,
                      pass_rate |-> report_pass_rate(rs, passed),
                      start_time |-> started,
                      end_time |-> now,
                      duration |-> IntStr(now - started) \o ".00s"],
         test_results |-> rs]

(***************************************************************************)
(* tests/test_aqx_platform.py: MockAPIResponse and AQXTradingPage          *)
(***************************************************************************)
Symbols    == {"BTCUSD", "ETHUSD"}
Quantities == {1, 5}     \* in tenths: 0.1 and 0.5

NoOrderResult ==
    [keys |-> {}, status |-> "", message |-> "", order_id |-> "", symbol |-> "",
     type |-> "", quantity |-> 0, price |-> 0, timestamp |-> 0]

\* f"ORD{int(time.time())}"
order_id(now) == "ORD" \o IntStr(now)

\* MockAPIResponse.trade_order_success(order_type, symbol): quantity is
\* always 0.1, the price depends on the side
trade_order_success(order_type, symbol, now) ==
    [NoOrderResult EXCEPT
        !.keys = {"status", "order_id", "symbol", "type", "quantity", "price", "timestamp"},
        !.status = "success",
        !.order_id = order_id(now),
        !.symbol = symbol,
        !.type = order_type,
        !.quantity = 1,
        !.price = IF order_type = "buy" THEN 45000 ELSE 45100,
        !.timestamp = now]

\* MockTradeOrder(order_id=..., symbol=symbol, order_type=side, ...)
MockTradeOrder(id, symbol, order_type, quantity, price, status, now) ==
    [order_id |-> id, symbol |-> symbol, order_type |-> order_type,
     quantity |-> quantity, price |-> price, status |-> status, timestamp |-> now]

\* {"status": "error", "message": str(e)}
order_error == [NoOrderResult EXCEPT !.keys = {"status", "message"},
                                     !.status = "error",
                                     !.message = "WebDriverException"]

\* the body shared by place_buy_order and place_sell_order: the order is
\* appended, then the screenshot is taken; when take_screenshot raises the
\* except branch returns the error result
place_order(orders, order_type, symbol, quantity, now, shot_raises) ==
    LET mock_response == trade_order_success(order_type, symbol, now)
        order == MockTradeOrder(mock_response.order_id, symbol, order_type, quantity,
                                mock_response.price, "executed", now)
    IN  [mock_orders |-> Append(orders, order),
         result |-> IF shot_raises THEN order_error ELSE mock_response]

\* take_screenshot(name): driver.save_screenshot writes
\* screenshots/<name>_<timestamp>.png when the directory exists
take_screenshot(tree, name, now) ==
    LET filename == name \o "_" \o IntStr(now) \o ".png"
    IN  IF tree.screenshots.exists
           /\ \A i \in 1..Len(tree.screenshots.files) : tree.screenshots.files[i] # filename
        THEN [tree EXCEPT !.screenshots.files = Append(@, filename)]
        ELSE tree

(***************************************************************************)
(* run_tests.py: TestRunner and main()                                     *)
(***************************************************************************)
TestTypes == {"all", "smoke", "critical", "trading", "view", "bulk", "regression"}

\* the subset names in the order list_available_tests prints them
ListedTypes == <<"all", "smoke", "critical", "trading", "view", "bulk", "regression">>

\* the test methods of tests/test_aqx_platform.py
SUITE_TESTS == 10

\* for test in tests[:10]
LIST_LIMIT == 10
Browsers  == {"chrome", "firefox", "edge"}

Args ==
    [type : TestTypes, browser : Browsers, headless : BOOLEAN,
     parallel : BOOLEAN, list : BOOLEAN, dashboard_only : BOOLEAN]

NoEnv == [keys |-> {}, HEADLESS |-> "", BROWSER |-> ""]

\* os.environ of the orchestrator, as far as the engine reads it
OsEnvs ==
    {NoEnv,
     [keys |-> {"HEADLESS"}, HEADLESS |-> "true", BROWSER |-> ""],
     [keys |-> {"HEADLESS"}, HEADLESS |-> "false", BROWSER |-> ""]}

\* TestRunner.__init__: mkdir(exist_ok=True) of reports, screenshots, logs
\* below base_dir
runner_init(tree) ==
    [tree EXCEPT !.reports = TRUE,
                 !.screenshots = IF @.exists THEN @ ELSE DirOf(<<>>),
                 !.logs = IF @.exists THEN @ ELSE DirOf(<<>>)]

\* strftime('%Y%m%d_%H%M%S') of the clock second
TimeStr(now) == IntStr(now)

\* the command line with the marker option added for every test type
build_cmd_always_marker(test_type, parallel, now) ==
    <<"python", "-m", "pytest", "-m", test_type>>
    \o <<"-v",
         "--html", "base/reports/" \o test_type \o "_test_report_" \o TimeStr(now) \o ".html",
         "--self-contained-html",
         "--junit-xml", "base/reports/junit_" \o test_type \o "_" \o TimeStr(now) \o ".xml">>
    \o (IF parallel THEN <<"-n", "auto">> ELSE <<>>)

\* the pytest command line of run_tests (lines 40-60)
build_cmd(test_type, parallel, now) ==
    <<"python", "-m", "pytest">>
    \o (IF test_type # "all" THEN <<"-m", test_type>> ELSE <<>>)
    \o <<"-v",
         "--html", "base/reports/" \o test_type \o "_test_report_" \o TimeStr(now) \o ".html",
         "--self-contained-html",
         "--junit-xml", "base/reports/junit_" \o test_type \o "_" \o TimeStr(now) \o ".xml">>
    \o (IF parallel THEN <<"-n", "auto">> ELSE <<>>)

\* the environment of run_tests (lines 63-66)
build_env(environ, browser, headless) ==
    LET e == IF headless
             THEN [environ EXCEPT !.keys = @ \cup {"HEADLESS"}, !.HEADLESS = "true"]
             ELSE environ
    IN  [e EXCEPT !.keys = @ \cup {"BROWSER"}, !.BROWSER = browser]

NoResult == [raised |-> FALSE, returncode |-> 0, finished |-> FALSE,
             collected |-> 0, failed |-> 0]

\* What subprocess.run(cmd, cwd=base_dir, ...) can do: raise (the
\* executable is missing), or return the engine's exit code.  The engine is
\* external: its exit code, whether its session reached the session-finish
\* hook, and the tallies of that session are its choice.
EngineOutcomes ==
    {[NoResult EXCEPT !.raised = TRUE]}
    \cup {[raised |-> FALSE, returncode |-> c, finished |-> FALSE,
           collected |-> 0, failed |-> 0] : c \in 0..MaxReturnCode}
    \cup [raised : {FALSE}, returncode : 0..MaxReturnCode, finished : {TRUE},
          collected : 0..MaxRunTests, failed : 0..MaxRunTests]

\* the tree the engine leaves below its working directory
engine_effect(tree, o, now) ==
    IF o.finished
    THEN write_summary(tree, session_summary(o.collected, o.failed, o.returncode, now))
    ELSE tree

\* What the "--collect-only -q" engine of list_available_tests can do: the
\* same, and it discovers none, some or all of the suite's test methods.
CollectOutcomes ==
    {[NoResult EXCEPT !.raised = TRUE]}
    \cup [raised : {FALSE}, returncode : 0..MaxReturnCode, finished : BOOLEAN,
          collected : (0..MaxRunTests) \cup {SUITE_TESTS}, failed : 0..MaxRunTests]

\* the engine command line of list_available_tests (lines 161-163)
list_cmd == <<"python", "-m", "pytest", "--collect-only", "-q">>

\* the i-th line of the engine's output that contains "::test_"
TestId(i) == "tests/test_aqx_platform.py::test_" \o IntStr(i)

\* everything list_available_tests prints for the engine outcome o
list_lines(o) ==
    <<"Available Test Types:">>
    \o [i \in 1..Len(ListedTypes) |-> "  - " \o ListedTypes[i]]
    \o <<"Available Tests:">>
    \o (IF o.raised THEN <<"Could not collect test list">>
        ELSE [i \in 1..Min(o.collected, LIST_LIMIT) |-> "  - " \o TestId(i)]
             \o (IF o.collected > LIST_LIMIT
                 THEN <<"... and " \o IntStr(o.collected - LIST_LIMIT) \o " more tests">>
                 ELSE <<>>))

\* main() dispatching on --dashboard-only before --list
main_dispatch_dashboard_first(a) ==
    IF a.dashboard_only THEN "dashboard_only"
    ELSE IF a.list THEN "list"
    ELSE "run"

\* the order in which main() looks at the special commands (lines 231-237)
main_dispatch(a) ==
    IF a.list THEN "list"
    ELSE IF a.dashboard_only THEN "dashboard_only"
    ELSE "run"

generate_dashboard_catches_called(exc) == exc = "CalledProcessError"

\* `except Exception` of generate_dashboard (line 110)
generate_dashboard_catches(exc) == exc \in {"CalledProcessError", "FileNotFoundError"}

run_tests_except_true == TRUE

\* the value returned by the except branch of run_tests (line 99)
run_tests_except_value == FALSE

\* the value returned by the try branch of run_tests (line 95)
run_tests_value(returncode) == returncode = 0

\* sys.exit(0 if success else 1)
exit_status(ok) == IF ok THEN 0 ELSE 1

\* the lines print_summary prints for the file base_dir/reports/test_summary.json
summary_lines(file) ==
    IF ~file.exists THEN <<>>
    ELSE IF ~file.valid THEN <<"Could not load test summary">>
    ELSE LET total == Get(file.doc, "total_tests", 0)
             shown(k) == IF k \in file.doc.keys THEN IntStr(file.doc[k]) ELSE "N/A"
         IN  <<"Results:",
               "Total Tests: " \o shown("total_tests"),
               "Passed: " \o shown("passed"),
               "Failed: " \o shown("failed")>>
             \o (IF total > 0
                 THEN <<"Pass Rate: "
                        \o Format1f(Rat(Get(file.doc, "passed", 0) * 100,
                                        Get(file.doc, "total_tests", 1))) \o "%">>
                 ELSE <<>>)

\* everything print_summary prints
print_summary(returncode, tree) ==
    <<"TEST EXECUTION SUMMARY",
      IF returncode = 0 THEN "Status: PASSED" ELSE "Status: FAILED",
      "Dashboard: base/reports/test_dashboard.html">>
    \o summary_lines(tree.summary)
    \o <<"END OF SUMMARY">>

(***************************************************************************)
(* Actions of run_tests.py                                                 *)
(***************************************************************************)
idleDash == dpc = "idle" /\ loaded = load_test_results(EmptyTree) /\ html = NoHtml
idleRep  == rpc = "idle" /\ results = <<>> /\ start_time = 0 /\ report = EmptyReport
idleSess == spc = "idle" /\ testscollected = 0 /\ testsfailed = 0 /\ exitstatus = 0
idleSuite == tpc = "idle" /\ raising = FALSE /\ outcomes = <<>>
idleEng  == ppc = [p \in Procs |-> "absent"] /\ writers = {}
idleTrade == mock_orders = <<>> /\ order_result = NoOrderResult
IdleArgs ==
    [type |-> "all", browser |-> "chrome", headless |-> FALSE, parallel |-> FALSE,
     list |-> FALSE, dashboard_only |-> FALSE]
idleRun  ==
    /\ pc = "idle" /\ args = IdleArgs /\ osenv = NoEnv /\ cwd = "base"
    /\ cmd = <<>> /\ env = NoEnv /\ result = NoResult /\ success = FALSE
    /\ exit_code = 0 - 1 /\ stdout = <<>>

Say(lines) == stdout' = stdout \o lines

\* runner = TestRunner()
main_init ==
    /\ pc = "main"
    /\ fs' = [fs EXCEPT !["base"] = runner_init(@)]
    /\ pc' = "dispatch"
    /\ UNCHANGED <<args, osenv, cwd, cmd, env, result, success, exit_code, stdout>>
    /\ UNCHANGED <<clock, dashVars, repVars, sessVars, suiteVars, engVars>>
    /\ UNCHANGED tradeVars

\* if args.list: runner.list_available_tests(); return
\* The engine is run with --collect-only in base_dir; its session, when it
\* reaches the session-finish hook, writes the summary document there.
main_list ==
    /\ pc = "dispatch" /\ main_dispatch(args) = "list"
    /\ cmd' = list_cmd
    /\ \E o \in CollectOutcomes :
        /\ result' = o
        /\ fs' = IF o.raised THEN fs
                 ELSE [fs EXCEPT !["base"] = engine_effect(@, o, clock)]
        /\ Say(list_lines(o))
    /\ pc' = "exited" /\ exit_code' = 0
    /\ UNCHANGED <<args, osenv, cwd, env, success>>
    /\ UNCHANGED <<clock, dashVars, repVars, sessVars, suiteVars, engVars>>
    /\ UNCHANGED tradeVars

\* if args.dashboard_only: runner.generate_dashboard(); return
main_dashboard_only ==
    /\ pc = "dispatch" /\ main_dispatch(args) = "dashboard_only"
    /\ Say(<<"Generating test dashboard...">>)
    /\ pc' = "rendering_only"
    /\ UNCHANGED <<args, osenv, cwd, cmd, env, result, success, exit_code>>
    /\ UNCHANGED <<fs, clock, dashVars, repVars, sessVars, suiteVars, engVars>>
    /\ UNCHANGED tradeVars

\* run_tests up to the try: the banner, cmd and env
run_tests_begin ==
    /\ pc = "dispatch" /\ main_dispatch(args) = "run"
    /\ Say(<<"Starting AQX Trading Platform Tests">>)
    /\ cmd' = build_cmd(args.type, args.parallel, clock)
    /\ env' = build_env(osenv, args.browser, args.headless)
    /\ pc' = "invoking"
    /\ UNCHANGED <<args, osenv, cwd, result, success, exit_code>>
    /\ UNCHANGED <<fs, clock, dashVars, repVars, sessVars, suiteVars, engVars>>
    /\ UNCHANGED tradeVars

\* result = subprocess.run(cmd, cwd=self.base_dir, env=env, ...)
run_tests_invoke ==
    /\ pc = "invoking"
    /\ \E o \in EngineOutcomes :
        /\ result' = o
        /\ IF o.raised
           THEN /\ pc' = "except"
                /\ UNCHANGED <<fs, stdout>>
           ELSE /\ pc' = "engine_returned"
                /\ fs' = [fs EXCEPT !["base"] = engine_effect(@, o, clock)]
                /\ Say(<<"Test Output:">>)
    /\ UNCHANGED <<args, osenv, cwd, cmd, env, success, exit_code>>
    /\ UNCHANGED <<clock, dashVars, repVars, sessVars, suiteVars, engVars>>
    /\ UNCHANGED tradeVars

\* self.generate_dashboard() of run_tests, up to the subprocess
run_tests_render ==
    /\ pc = "engine_returned"
    /\ Say(<<"Generating test dashboard...">>)
    /\ pc' = "rendering_run"
    /\ UNCHANGED <<args, osenv, cwd, cmd, env, result, success, exit_code>>
    /\ UNCHANGED <<fs, clock, dashVars, repVars, sessVars, suiteVars, engVars>>
    /\ UNCHANGED tradeVars

\* generate_dashboard: subprocess.run(["python", script], check=True) in the
\* orchestrator's own working directory, and the except around it.  An
\* exception the except does not catch leaves the method: into the except
\* of run_tests, or out of main().
generate_dashboard ==
    /\ pc \in {"rendering_run", "rendering_only"}
    /\ \E starts \in BOOLEAN :
        LET d   == dashboard_main(fs[cwd], clock)
            exc == IF ~starts THEN "FileNotFoundError"
                   ELSE IF d.returncode # 0 THEN "CalledProcessError"
                   ELSE "none"
            returns == exc = "none" \/ generate_dashboard_catches(exc)
        IN  /\ fs' = IF starts THEN [fs EXCEPT ![cwd] = d.tree] ELSE fs
            /\ Say(IF exc = "none" THEN <<"Dashboard generated successfully">>
                   ELSE IF returns THEN <<"Dashboard generation failed: " \o exc>>
                   ELSE <<>>)
            /\ pc' = IF pc = "rendering_run"
                     THEN (IF returns THEN "summary" ELSE "except")
                     ELSE "exited"
            /\ exit_code' = IF pc = "rendering_only"
                            THEN (IF returns THEN 0 ELSE 1)
                            ELSE exit_code
    /\ UNCHANGED <<args, osenv, cwd, cmd, env, result, success>>
    /\ UNCHANGED <<clock, dashVars, repVars, sessVars, suiteVars, engVars>>
    /\ UNCHANGED tradeVars

\* self.print_summary(result.returncode, report_name); return result.returncode == 0
run_tests_summary ==
    /\ pc = "summary"
    /\ Say(print_summary(result.returncode, fs["base"]))
    /\ success' = run_tests_value(result.returncode)
    /\ pc' = "returned"
    /\ UNCHANGED <<args, osenv, cwd, cmd, env, result, exit_code>>
    /\ UNCHANGED <<fs, clock, dashVars, repVars, sessVars, suiteVars, engVars>>
    /\ UNCHANGED tradeVars

\* except Exception as e: print(...); return False
run_tests_except ==
    /\ pc = "except"
    /\ Say(<<"Error running tests">>)
    /\ success' = run_tests_except_value
    /\ pc' = "returned"
    /\ UNCHANGED <<args, osenv, cwd, cmd, env, result, exit_code>>
    /\ UNCHANGED <<fs, clock, dashVars, repVars, sessVars, suiteVars, engVars>>
    /\ UNCHANGED tradeVars

\* sys.exit(0 if success else 1)
main_exit ==
    /\ pc = "returned"
    /\ exit_code' = exit_status(success)
    /\ pc' = "exited"
    /\ UNCHANGED <<args, osenv, cwd, cmd, env, result, success, stdout>>
    /\ UNCHANGED <<fs, clock, dashVars, repVars, sessVars, suiteVars, engVars>>
    /\ UNCHANGED tradeVars

\* A summary document an earlier run left behind.
StaleSummary == session_summary(1, 0, 0, 0)

\* The trees run_tests.py can be started on.
RunTrees ==
    {[EmptyTree EXCEPT !.reports = f.exists, !.summary = f] :
        f \in {AbsentFile(EmptySummary), CorruptFile(EmptySummary), JsonFile(StaleSummary)}}

InitRun ==
    /\ pc = "main"
    /\ args \in Args
    /\ osenv \in OsEnvs
    /\ cwd \in Dirs
    /\ cmd = <<>> /\ env = NoEnv /\ result = NoResult
    /\ success = FALSE /\ exit_code = 0 - 1 /\ stdout = <<>>
    /\ fs \in [Dirs -> RunTrees]
    /\ (cwd = "base" => fs["other"] = EmptyTree)
    /\ clock = 0
    /\ idleDash /\ idleRep /\ idleSess /\ idleSuite /\ idleEng /\ idleTrade

NextRun ==
    \/ main_init
    \/ main_list
    \/ main_dashboard_only
    \/ run_tests_begin
    \/ run_tests_invoke
    \/ run_tests_render
    \/ generate_dashboard
    \/ run_tests_summary
    \/ run_tests_except
    \/ main_exit

SpecRun == InitRun /\ [][NextRun]_vars

(***************************************************************************)
(* Claims about the run orchestrator (SpecRun)                             *)
(***************************************************************************)
Printed(line) == \E i \in 1..Len(stdout) : stdout[i] = line

\* run_tests was called and has returned
RunTestsReturned ==
    pc \in {"returned", "exited"} /\ Printed("Starting AQX Trading Platform Tests")

\* C1: in every execution of run_tests, whatever the engine invocation did
\* (exit 0, exit non-zero, or raise), generate_dashboard has been invoked by
\* the time run_tests returns.
C1_RenderingAlwaysEntered ==
    RunTestsReturned => Printed("Generating test dashboard...")

\* C2: on the normal run path of main (no --list, no --dashboard-only) the
\* process exit code is 0 or 1, and it is 0 exactly when the engine
\* invocation returned exit code 0.
C2_ExitCodeIffEngineZero ==
    (pc = "exited" /\ ~args.list /\ ~args.dashboard_only)
        => /\ exit_code \in {0, 1}
           /\ exit_code = 0 <=> (~result.raised /\ result.returncode = 0)

\* the scenario of C2: --type smoke, the engine exits 1, the process exits 1
C2_Witness ==
    /\ pc = "exited" /\ ~args.list /\ ~args.dashboard_only
    /\ args.type = "smoke" /\ ~result.raised /\ result.returncode = 1
    /\ exit_code = 1

\* C3: a failure of the rendering stage never changes the verdict of
\* run_tests: once the engine has returned exit code c, run_tests returns
\* (c = 0) whether the dashboard subprocess succeeded, exited non-zero or
\* could not start; no exception of generate_dashboard reaches the except
\* branch of run_tests or leaves main().
C3_RenderFailureKeepsVerdict ==
    /\ pc = "except" => result.raised
    /\ (RunTestsReturned /\ ~result.raised) => (success <=> result.returncode = 0)
    /\ (pc = "exited" /\ ~args.list /\ args.dashboard_only) => exit_code = 0

\* rendering failed after an engine run that exited 0, and run_tests
\* returned True
C3_Witness ==
    /\ pc = "returned" /\ ~result.raised /\ result.returncode = 0
    /\ Printed("Dashboard generation failed: CalledProcessError")
    /\ success

\* C4: every execution of run_tests has printed the final status block
\* (print_summary) by the time it returns, whatever happened earlier.
C4_SummaryAlwaysPrinted ==
    RunTestsReturned => Printed("TEST EXECUTION SUMMARY")

(***************************************************************************)
(* scripts/generate_dashboard.py run on its own: main(), step by step, in  *)
(* the working directory "base".                                           *)
(***************************************************************************)
NoTrees == [d \in Dirs |-> EmptyTree]

\* os.makedirs("reports", exist_ok=True); results = load_test_results()
dash_load ==
    /\ dpc = "start"
    /\ fs' = [fs EXCEPT !["base"].reports = TRUE]
    /\ loaded' = load_test_results(fs'["base"])
    /\ dpc' = IF loaded'.raised THEN "failed" ELSE "loaded"
    /\ UNCHANGED <<html, clock, runVars, repVars, sessVars, suiteVars, engVars>>
    /\ UNCHANGED tradeVars

\* dashboard_html = generate_dashboard_html(results)
dash_render ==
    /\ dpc = "loaded"
    /\ html' = generate_dashboard_html(loaded, clock)
    /\ dpc' = IF html'.raised THEN "failed" ELSE "rendered"
    /\ UNCHANGED <<loaded, fs, clock, runVars, repVars, sessVars, suiteVars, engVars>>
    /\ UNCHANGED tradeVars

\* with open("reports/test_dashboard.html", "w") as f: f.write(dashboard_html)
dash_write ==
    /\ dpc = "rendered"
    /\ fs' = [fs EXCEPT !["base"].dashboard = [exists |-> TRUE, html |-> html]]
    /\ dpc' = "done"
    /\ UNCHANGED <<loaded, html, clock, runVars, repVars, sessVars, suiteVars, engVars>>
    /\ UNCHANGED tradeVars

NextDash == dash_load \/ dash_render \/ dash_write

SeqsUpTo(S, n) == UNION {[1..k -> S] : k \in 0..n}

TestNames == {"test_a", "test_b"}
Statuses  == {"PASSED", "FAILED", "SKIPPED"}

\* Records of a detail list: any of test_name and status may be missing.
DetailRecords ==
    {[keys |-> K,
      test_name |-> IF "test_name" \in K THEN n ELSE "",
      status |-> IF "status" \in K THEN st ELSE "",
      timestamp |-> 0, duration |-> 0] :
        K \in SUBSET {"test_name", "status"}, n \in TestNames, st \in Statuses}

ReportOf(rs) == [keys |-> {"summary", "test_results"}, summary |-> NoReportSummary,
                 test_results |-> rs]

\* Detail files: absent, unparseable, an object without "test_results", or
\* a detail document.
ReportFiles(n) ==
    {AbsentFile(EmptyReport), CorruptFile(EmptyReport), JsonFile(EmptyReport)}
    \cup {JsonFile(ReportOf(rs)) : rs \in SeqsUpTo(DetailRecords, n)}

\* The first n screenshot names, in the order glob() yields them.
ShotNames(n) == [i \in 1..n |-> "shot" \o IntStr(i) \o ".png"]

\* Summary documents: each of the three counts present or missing.
MetricSummaries ==
    {[EmptySummary EXCEPT !.keys = K,
                          !.total_tests = IF "total_tests" \in K THEN t ELSE 0,
                          !.passed = IF "passed" \in K THEN p ELSE 0,
                          !.failed = IF "failed" \in K THEN f ELSE 0] :
        K \in SUBSET {"total_tests", "passed", "failed"},
        t \in 0..MaxCount, p \in (0 - 1)..MaxCount, f \in 0..MaxCount}

ScenarioSummary ==
    [EmptySummary EXCEPT !.keys = {"total_tests", "passed", "failed"},
                         !.total_tests = 9, !.passed = 7, !.failed = 2]

TreeOf(summary, rep, shots, logs) ==
    [EmptyTree EXCEPT !.summary = summary, !.report = rep,
                      !.reports = summary.exists \/ rep.exists,
                      !.screenshots = shots, !.logs = logs]

DashStart(trees) ==
    /\ dpc = "start" /\ loaded = load_test_results(EmptyTree) /\ html = NoHtml
    /\ fs \in {[NoTrees EXCEPT !["base"] = t] : t \in trees}
    /\ clock = 0
    /\ idleRun /\ idleRep /\ idleSess /\ idleSuite /\ idleEng /\ idleTrade

\* SpecMetrics: every summary document, few detail lists and screenshots.
InitMetrics ==
    DashStart({TreeOf(s, r, sh, AbsentDir) :
        s \in {AbsentFile(EmptySummary), CorruptFile(EmptySummary)}
              \cup {JsonFile(d) : d \in MetricSummaries},
        r \in {AbsentFile(EmptyReport)},
        sh \in {AbsentDir, DirOf(ShotNames(1))}})

\* SpecDash: every detail list, few summary documents and screenshots.
InitDash ==
    DashStart({TreeOf(s, r, sh, lg) :
        s \in {AbsentFile(EmptySummary), CorruptFile(EmptySummary), JsonFile(ScenarioSummary)},
        r \in ReportFiles(MaxDetails),
        sh \in {AbsentDir, DirOf(<<>>), DirOf(ShotNames(2))},
        lg \in {AbsentDir, DirOf(<<"run.log">>)}})

SpecMetrics == InitMetrics /\ [][NextDash]_vars
SpecDash    == InitDash /\ [][NextDash]_vars

\* the same names as glob() yields them on a filesystem that lists backwards
Reverse(s) == [i \in 1..Len(s) |-> s[Len(s) + 1 - i]]

\* SpecShots: every number of screenshot files up to MaxShots, in either
\* listing order, few summary documents and detail lists.
InitShots ==
    DashStart({TreeOf(s, r, sh, AbsentDir) :
        s \in {AbsentFile(EmptySummary), JsonFile(ScenarioSummary)},
        r \in {AbsentFile(EmptyReport), JsonFile(EmptyReport)},
        sh \in {AbsentDir}
               \cup {DirOf(ShotNames(n)) : n \in 0..MaxShots}
               \cup {DirOf(Reverse(ShotNames(n))) : n \in 0..MaxShots}})

SpecShots == InitShots /\ [][NextDash]_vars

\* status strings a detail document can carry
StyleStatuses == {"PASSED", "FAILED", "UNKNOWN", "SKIPPED", "passed", ""}

\* detail records over those statuses, test_name and status present or not
StyleRecords ==
    {[keys |-> K,
      test_name |-> IF "test_name" \in K THEN "test_a" ELSE "",
      status |-> IF "status" \in K THEN st ELSE "",
      timestamp |-> 0, duration |-> 0] :
        K \in SUBSET {"test_name", "status"}, st \in StyleStatuses}

\* SpecStyles: short detail lists over every status string.
InitStyles ==
    DashStart({TreeOf(s, JsonFile(ReportOf(rs)), AbsentDir, AbsentDir) :
        s \in {AbsentFile(EmptySummary), JsonFile(ScenarioSummary)},
        rs \in SeqsUpTo(StyleRecords, MaxStyled)})

SpecStyles == InitStyles /\ [][NextDash]_vars

\* the script is started once more in the same directory
dash_start_again ==
    /\ dpc \in {"done", "failed"}
    /\ dpc' = "start"
    /\ loaded' = load_test_results(EmptyTree)
    /\ html' = NoHtml
    /\ UNCHANGED <<fs, clock, runVars, repVars, sessVars, suiteVars, engVars>>
    /\ UNCHANGED tradeVars

\* wall-clock time passes while the script runs and between its runs
dash_tick ==
    /\ clock < MaxClock
    /\ clock' = clock + 1
    /\ UNCHANGED <<fs, runVars, dashVars, repVars, sessVars, suiteVars, engVars>>
    /\ UNCHANGED tradeVars

\* SpecRerun: the script run again and again over the same input files.
InitRerun ==
    DashStart({TreeOf(s, r, sh, AbsentDir) :
        s \in {AbsentFile(EmptySummary), JsonFile(EmptySummary), JsonFile(ScenarioSummary)},
        r \in ReportFiles(1),
        sh \in {AbsentDir, DirOf(ShotNames(2))}})

NextRerun == dash_load \/ dash_render \/ dash_write \/ dash_start_again \/ dash_tick

SpecRerun == InitRerun /\ [][NextRerun]_vars

(***************************************************************************)
(* TestReporter, driven by any sequence of its two methods                 *)
(***************************************************************************)

\* self.reporter.add_result(test_name, status, details)
add_result ==
    /\ rpc = "live" /\ Len(results) < MaxResults
    /\ \E n \in TestNames, st \in Statuses :
        results' = Append(results, result_record(n, st, clock))
    /\ UNCHANGED <<rpc, start_time, report, fs, clock, runVars, dashVars, sessVars, suiteVars, engVars>>
    /\ UNCHANGED tradeVars

\* generate_report(): builds the report, writes reports/test_report.json
\* (open() raises when the reports directory is missing), returns it
generate_report ==
    /\ rpc = "live"
    /\ IF fs["base"].reports
       THEN /\ report' = build_report(results, start_time, clock)
            /\ fs' = [fs EXCEPT !["base"].report = JsonFile(report')]
            /\ rpc' = "live"
       ELSE /\ rpc' = "raised"
            /\ UNCHANGED <<report, fs>>
    /\ UNCHANGED <<results, start_time, clock, runVars, dashVars, sessVars, suiteVars, engVars>>
    /\ UNCHANGED tradeVars

\* a second passes
Tick ==
    /\ clock < MaxClock
    /\ clock' = clock + 1
    /\ UNCHANGED <<fs, runVars, dashVars, repVars, sessVars, suiteVars, engVars>>
    /\ UNCHANGED tradeVars

\* reporter = TestReporter(), in a working directory with or without reports/
InitReporter ==
    /\ rpc = "live" /\ results = <<>> /\ start_time = 0 /\ report = EmptyReport
    /\ clock = 0
    /\ fs \in {[NoTrees EXCEPT !["base"].reports = b] : b \in BOOLEAN}
    /\ idleRun /\ idleDash /\ idleSess /\ idleSuite /\ idleEng /\ idleTrade

NextReporter == add_result \/ generate_report \/ Tick

SpecReporter == InitReporter /\ [][NextReporter]_vars

(***************************************************************************)
(* pytest_sessionfinish, over the tallies the engine hands it              *)
(***************************************************************************)

\* pytest_sessionfinish(session, exitstatus)
pytest_sessionfinish ==
    /\ spc = "finishing"
    /\ IF fs["base"].reports
       THEN /\ fs' = [fs EXCEPT !["base"] =
                        write_summary(@, session_summary(testscollected, testsfailed,
                                                         exitstatus, clock))]
            /\ spc' = "finished"
       ELSE /\ spc' = "raised"
            /\ UNCHANGED fs
    /\ UNCHANGED <<testscollected, testsfailed, exitstatus, clock, runVars, dashVars, repVars,
                 suiteVars, engVars>>
    /\ UNCHANGED tradeVars

\* The engine counts collected items in testscollected and failed reports
\* in testsfailed: a collection error is a failed report without an item,
\* and an item can fail in its call and again in its teardown, so neither
\* tally bounds the other.
InitSession ==
    /\ spc = "finishing"
    /\ testscollected \in 0..MaxCount
    /\ testsfailed \in 0..MaxCount
    /\ exitstatus \in 0..MaxReturnCode
    /\ fs \in {[NoTrees EXCEPT !["base"] = t] : t \in RunTrees \cup {EmptyTree}}
    /\ clock = 0
    /\ idleRun /\ idleDash /\ idleRep /\ idleSuite /\ idleEng /\ idleTrade

NextSession == pytest_sessionfinish

SpecSession == InitSession /\ [][NextSession]_vars

(***************************************************************************)
(* One engine session over the suite, in one process: for every collected  *)
(* test method setup_method, the method itself, teardown_method; then the  *)
(* session-finish hook.  The steps of a test method are its page           *)
(* operations, its assertions and the add_result call that ends it.        *)
(***************************************************************************)
SuiteTestName(i) == "test_" \o IntStr(i)

\* the test method being executed (or executed last)
CurrentTest == SuiteTestName(Len(outcomes) + 1)

\* an except branch that records the failure and returns
test_method_except_swallow(rs, test_name, now) ==
    [results |-> Append(rs, result_record(test_name, "FAILED", now)), raises |-> FALSE]

\* except Exception as e: self.reporter.add_result(name, "FAILED", ...); raise
test_method_except(rs, test_name, now) ==
    [results |-> Append(rs, result_record(test_name, "FAILED", now)), raises |-> TRUE]

\* setup_method: the driver, the page objects, self.reporter = TestReporter()
\* and (trading tests) the login; the session fixture and setup_method make
\* the reports directory.  When it raises the method is not executed and
\* the engine counts an error.
setup_method ==
    /\ tpc = "between" /\ Len(outcomes) < testscollected
    /\ fs' = [fs EXCEPT !["base"].reports = TRUE]
    /\ rpc' = "live" /\ results' = <<>> /\ start_time' = clock
    /\ \E ok \in BOOLEAN :
        IF ok
        THEN /\ tpc' = "act"
             /\ UNCHANGED <<outcomes, testsfailed>>
        ELSE /\ tpc' = "between"
             /\ outcomes' = Append(outcomes, [outcome |-> "error", recorded |-> <<>>])
             /\ testsfailed' = testsfailed + 1
    /\ UNCHANGED <<report, raising, spc, testscollected, exitstatus>>
    /\ UNCHANGED <<clock, runVars, dashVars, engVars>>
    /\ UNCHANGED tradeVars

\* the page operations of the try block; any of them may raise
test_method_act ==
    /\ tpc = "act"
    /\ \E raises \in BOOLEAN : tpc' = IF raises THEN "except" ELSE "assert"
    /\ UNCHANGED <<raising, outcomes, fs, clock, runVars, dashVars, repVars, sessVars, engVars>>
    /\ UNCHANGED tradeVars

\* the assert statements of the try block; any of them may raise
test_method_assert ==
    /\ tpc = "assert"
    /\ \E raises \in BOOLEAN : tpc' = IF raises THEN "except" ELSE "record"
    /\ UNCHANGED <<raising, outcomes, fs, clock, runVars, dashVars, repVars, sessVars, engVars>>
    /\ UNCHANGED tradeVars

\* self.reporter.add_result(name, "PASSED", ...), the last statement of the
\* try block: the method returns
test_method_passed ==
    /\ tpc = "record"
    /\ results' = Append(results, result_record(CurrentTest, "PASSED", clock))
    /\ tpc' = "returned"
    /\ UNCHANGED <<rpc, start_time, report, raising, outcomes>>
    /\ UNCHANGED <<fs, clock, runVars, dashVars, sessVars, engVars>>
    /\ UNCHANGED tradeVars

\* the except branch of the test method
test_method_failed ==
    /\ tpc = "except"
    /\ LET x == test_method_except(results, CurrentTest, clock)
       IN  /\ results' = x.results
           /\ raising' = x.raises
           /\ tpc' = IF x.raises THEN "raised_out" ELSE "returned"
    /\ UNCHANGED <<rpc, start_time, report, outcomes>>
    /\ UNCHANGED <<fs, clock, runVars, dashVars, sessVars, engVars>>
    /\ UNCHANGED tradeVars

\* teardown_method (driver.quit(), which may raise too); the engine files
\* the outcome of the call and counts every failed report
teardown_method ==
    /\ tpc \in {"returned", "raised_out"}
    /\ \E quit_raises \in BOOLEAN :
        testsfailed' = testsfailed + (IF raising THEN 1 ELSE 0)
                                   + (IF quit_raises THEN 1 ELSE 0)
    /\ outcomes' = Append(outcomes, [outcome |-> IF raising THEN "failed" ELSE "passed",
                                     recorded |-> results])
    /\ raising' = FALSE
    /\ tpc' = "between"
    /\ UNCHANGED <<spc, testscollected, exitstatus>>
    /\ UNCHANGED <<fs, clock, runVars, dashVars, repVars, engVars>>
    /\ UNCHANGED tradeVars

\* every collected test has run: the engine ends the session
session_end ==
    /\ tpc = "between" /\ Len(outcomes) = testscollected /\ spc = "running"
    /\ tpc' = "done"
    /\ spc' = "finishing"
    /\ exitstatus' = IF testsfailed > 0 THEN 1 ELSE 0
    /\ UNCHANGED <<testscollected, testsfailed, raising, outcomes>>
    /\ UNCHANGED <<fs, clock, runVars, dashVars, repVars, engVars>>
    /\ UNCHANGED tradeVars

InitSuite ==
    /\ tpc = "between" /\ raising = FALSE /\ outcomes = <<>>
    /\ spc = "running"
    /\ testscollected \in 1..MaxSuiteTests
    /\ testsfailed = 0 /\ exitstatus = 0
    /\ fs \in {[NoTrees EXCEPT !["base"] = t] : t \in RunTrees \cup {EmptyTree}}
    /\ clock = 0
    /\ idleRun /\ idleDash /\ idleRep /\ idleEng /\ idleTrade

NextSuite ==
    \/ setup_method
    \/ test_method_act
    \/ test_method_assert
    \/ test_method_passed
    \/ test_method_failed
    \/ teardown_method
    \/ session_end
    \/ pytest_sessionfinish

SpecSuite == InitSuite /\ [][NextSuite]_vars

(***************************************************************************)
(* The processes of one engine invocation of run_tests.  Without "-n" the  *)
(* engine is the one process subprocess.run starts.  With "-n auto" that   *)
(* process is the controller of one worker process per CPU; controller and *)
(* workers each run a session of their own over tests/conftest.py, in the  *)
(* working directory base_dir, and each session ends in the session-finish *)
(* hook.                                                                   *)
(***************************************************************************)
\* the command line asks for worker processes
Parallel(c) == \E i \in 1..(Len(c) - 1) : c[i] = "-n" /\ c[i + 1] = "auto"

\* result = subprocess.run(cmd, cwd=self.base_dir, ...): the engine starts
engine_start ==
    /\ pc = "invoking" /\ \A p \in Procs : ppc[p] = "absent"
    /\ \E W \in SUBSET WorkerProcs :
        /\ IF Parallel(cmd) THEN W # {} ELSE W = {}
        /\ ppc' = [p \in Procs |-> IF p = "controller" \/ p \in W
                                    THEN "running" ELSE "absent"]
    /\ pc' = "engine_running"
    /\ UNCHANGED <<args, osenv, cwd, cmd, env, result, success, exit_code, stdout>>
    /\ UNCHANGED <<writers, fs, clock, dashVars, repVars, sessVars, suiteVars>>
    /\ UNCHANGED tradeVars

\* pytest_sessionfinish(session, exitstatus) in the process p.  A worker
\* has collected every test and counts the failures of the tests it ran;
\* the controller ends its session when its workers have ended theirs.
process_sessionfinish(p) ==
    /\ ppc[p] = "running"
    /\ p = "controller" => \A w \in WorkerProcs : ppc[w] # "running"
    /\ \E f \in 0..testsfailed :
        LET failed == IF p = "controller" THEN testsfailed ELSE f
            status == IF p = "controller" THEN exitstatus
                      ELSE IF failed > 0 THEN 1 ELSE 0
        IN  fs' = [fs EXCEPT !["base"] =
                      write_summary(@, session_summary(testscollected, failed, status, clock))]
    /\ writers' = writers \cup {p}
    /\ ppc' = [ppc EXCEPT ![p] = "finished"]
    /\ UNCHANGED <<clock, runVars, dashVars, repVars, sessVars, suiteVars>>
    /\ UNCHANGED tradeVars

\* subprocess.run returns when the process it started has exited
engine_exit ==
    /\ pc = "engine_running" /\ ppc["controller"] = "finished"
    /\ result' = [raised |-> FALSE, returncode |-> exitstatus, finished |-> TRUE,
                  collected |-> testscollected, failed |-> testsfailed]
    /\ pc' = "engine_returned"
    /\ UNCHANGED <<args, osenv, cwd, cmd, env, success, exit_code, stdout>>
    /\ UNCHANGED <<fs, clock, dashVars, repVars, sessVars, suiteVars, engVars>>
    /\ UNCHANGED tradeVars

\* run_tests has built cmd and env and is about to start the engine, whose
\* sessions will end with the tallies of sessVars
InitEngine ==
    /\ pc = "invoking"
    /\ args \in {[IdleArgs EXCEPT !.parallel = par, !.headless = h] :
                    par \in BOOLEAN, h \in BOOLEAN}
    /\ osenv = NoEnv /\ cwd = "base"
    /\ cmd = build_cmd(args.type, args.parallel, 0)
    /\ env = build_env(osenv, args.browser, args.headless)
    /\ result = NoResult /\ success = FALSE /\ exit_code = 0 - 1
    /\ stdout = <<"Starting AQX Trading Platform Tests">>
    /\ spc = "finishing"
    /\ testscollected \in 0..MaxRunTests
    /\ testsfailed \in 0..MaxRunTests
    /\ exitstatus \in 0..MaxReturnCode
    /\ fs \in {[NoTrees EXCEPT !["base"] = runner_init(t)] : t \in RunTrees}
    /\ clock = 0
    /\ ppc = [p \in Procs |-> "absent"] /\ writers = {}
    /\ idleDash /\ idleRep /\ idleSuite /\ idleTrade

NextEngine ==
    \/ engine_start
    \/ \E p \in Procs : process_sessionfinish(p)
    \/ engine_exit

SpecEngine == InitEngine /\ [][NextEngine]_vars

(***************************************************************************)
(* Engine sessions one after another in the same directory, each ending in *)
(* the session-finish hook, each at a later second than the one before.    *)
(***************************************************************************)
\* the engine is invoked again: a new session with tallies of its own
session_next ==
    /\ spc \in {"finished", "raised"} /\ clock < MaxSessions - 1
    /\ clock' = clock + 1
    /\ spc' = "finishing"
    /\ testscollected' \in 0..MaxRunTests
    /\ testsfailed' \in 0..MaxRunTests
    /\ exitstatus' \in 0..MaxReturnCode
    /\ UNCHANGED <<fs, runVars, dashVars, repVars, suiteVars, engVars>>
    /\ UNCHANGED tradeVars

InitSessions ==
    /\ spc = "finishing"
    /\ testscollected \in 0..MaxRunTests
    /\ testsfailed \in 0..MaxRunTests
    /\ exitstatus \in 0..MaxReturnCode
    /\ fs \in {[NoTrees EXCEPT !["base"] = t] : t \in RunTrees \cup {EmptyTree}}
    /\ clock = 0
    /\ idleRun /\ idleDash /\ idleRep /\ idleSuite /\ idleEng /\ idleTrade

NextSessions == pytest_sessionfinish \/ session_next

SpecSessions == InitSessions /\ [][NextSessions]_vars

(***************************************************************************)
(* One AQXTradingPage, driven by any sequence of its two order methods.    *)
(***************************************************************************)
\* trading_page.place_buy_order(symbol, quantity)
place_buy_order ==
    /\ Len(mock_orders) < MaxOrders
    /\ \E symbol \in Symbols, quantity \in Quantities, shot_raises \in BOOLEAN :
        LET r == place_order(mock_orders, "buy", symbol, quantity, clock, shot_raises)
        IN  /\ mock_orders' = r.mock_orders
            /\ order_result' = r.result
            /\ fs' = IF shot_raises THEN fs
                     ELSE [fs EXCEPT !["base"] = take_screenshot(@, "buy_order_placed", clock)]
    /\ UNCHANGED <<clock, runVars, dashVars, repVars, sessVars, suiteVars, engVars>>

\* trading_page.place_sell_order(symbol, quantity)
place_sell_order ==
    /\ Len(mock_orders) < MaxOrders
    /\ \E symbol \in Symbols, quantity \in Quantities, shot_raises \in BOOLEAN :
        LET r == place_order(mock_orders, "sell", symbol, quantity, clock, shot_raises)
        IN  /\ mock_orders' = r.mock_orders
            /\ order_result' = r.result
            /\ fs' = IF shot_raises THEN fs
                     ELSE [fs EXCEPT !["base"] = take_screenshot(@, "sell_order_placed", clock)]
    /\ UNCHANGED <<clock, runVars, dashVars, repVars, sessVars, suiteVars, engVars>>

\* a second passes between two calls
trade_tick ==
    /\ clock < MaxClock
    /\ clock' = clock + 1
    /\ UNCHANGED <<fs, runVars, dashVars, repVars, sessVars, suiteVars, engVars, tradeVars>>

\* trading_page = AQXTradingPage(driver), in a working directory with or
\* without screenshots/
InitTrading ==
    /\ mock_orders = <<>> /\ order_result = NoOrderResult
    /\ clock = 0
    /\ fs \in {[NoTrees EXCEPT !["base"].screenshots = d] : d \in {AbsentDir, DirOf(<<>>)}}
    /\ idleRun /\ idleDash /\ idleRep /\ idleSess /\ idleSuite /\ idleEng

NextTrading == place_buy_order \/ place_sell_order \/ trade_tick

SpecTrading == InitTrading /\ [][NextTrading]_vars

(***************************************************************************)
(* Claims about the result collector and the session-finish hook           *)
(***************************************************************************)
ReportReturned == report.keys # {}

OtherStatus(rs) == {i \in 1..Len(rs) : rs[i].status \notin {"PASSED", "FAILED"}}

\* C5 as stated: after any sequence of add_result calls, with any status
\* the method accepts, the summary returned by generate_report satisfies
\* total_tests = passed + failed.
C5_TotalIsPassedPlusFailed ==
    ReportReturned =>
        report.summary.total_tests = report.summary.passed + report.summary.failed

\* C5 amended: total_tests = passed + failed + the number of records whose
\* status is neither "PASSED" nor "FAILED"; so total_tests = passed + failed
\* whenever every recorded status is "PASSED" or "FAILED".
C5_TotalIsPassedPlusFailedPlusOther ==
    ReportReturned =>
        /\ report.summary.total_tests = Len(report.test_results)
        /\ report.summary.total_tests =
             report.summary.passed + report.summary.failed
             + Cardinality(OtherStatus(report.test_results))
        /\ OtherStatus(report.test_results) = {} =>
             report.summary.total_tests = report.summary.passed + report.summary.failed

\* a report over passed and failed records only
C5_Witness ==
    /\ ReportReturned
    /\ OtherStatus(report.test_results) = {}
    /\ report.summary.passed >= 1 /\ report.summary.failed >= 2
    /\ report.summary.total_tests = 3

WrittenSummary == fs["base"].summary.doc

\* C6: in the summary document pytest_sessionfinish writes, total_tests,
\* passed and failed are non-negative for every pair of tallies the engine
\* reports, also when it counts more failed reports than collected tests.
C6_SummaryCountsNonNegative ==
    spc = "finished" =>
        /\ WrittenSummary.total_tests >= 0
        /\ WrittenSummary.passed >= 0
        /\ WrittenSummary.failed >= 0

(***************************************************************************)
(* Claims about the dashboard renderer                                     *)
(***************************************************************************)
Rendered == dpc \in {"rendered", "done"}

InputTree == fs["base"]

\* the summary document the script was started on ({} when there is none)
InputSummary ==
    IF InputTree.summary.exists /\ InputTree.summary.valid
    THEN InputTree.summary.doc ELSE EmptySummary

\* the detail list the script was started on
InputDetails ==
    IF InputTree.report.exists /\ InputTree.report.valid
    THEN Get(InputTree.report.doc, "test_results", <<>>) ELSE <<>>

\* C7: the pass rate the renderer computes is passed / total_tests * 100
\* when total_tests > 0 and 0 when total_tests = 0 or the counts are
\* missing; no summary makes the computation divide by zero.
C7_PassRate ==
    LET t == Get(InputSummary, "total_tests", 0)
        p == Get(InputSummary, "passed", 0)
    IN  /\ ~html.raised
        /\ dpc = "failed" => loaded.raised
        /\ Rendered =>
            /\ html.pass_rate.den > 0
            /\ t > 0 => html.pass_rate.num * t = p * 100 * html.pass_rate.den
            /\ t = 0 => html.pass_rate.num = 0

\* 2 of 3 passed: the rate is 200/3
C7_Witness ==
    /\ Rendered
    /\ Get(InputSummary, "total_tests", 0) = 3 /\ Get(InputSummary, "passed", 0) = 2
    /\ html.pass_rate.num * 3 = 200 * html.pass_rate.den

\* the decimal text of k tenths
TenthsText(k) == NatStr(k \div 10) \o "." \o Digits[(k % 10) + 1]

\* C8: the three count metrics are the summary's total_tests, passed and
\* failed, unchanged and in this order, and the fourth is the pass rate
\* rounded to the nearest tenth followed by "%"; the summary
\* {total_tests: 9, passed: 7, failed: 2} shows 9, 7, 2 and 77.8%.
C8_MetricsRendered ==
    LET t == Get(InputSummary, "total_tests", 0)
        p == Get(InputSummary, "passed", 0)
        f == Get(InputSummary, "failed", 0)
        a == IF p < 0 THEN 0 - p ELSE p
    IN  Rendered =>
            /\ Len(html.metrics) = 4
            /\ html.metrics[1] = IntStr(t)
            /\ html.metrics[2] = IntStr(p)
            /\ html.metrics[3] = IntStr(f)
            /\ t > 0 => \E k \in 0..(1000 * a) :
                          /\ 2 * (1000 * a - k * t) <= t
                          /\ 2 * (k * t - 1000 * a) <= t
                          /\ html.metrics[4] = (IF p < 0 THEN "-" ELSE "") \o TenthsText(k) \o "%"
            /\ t = 0 => html.metrics[4] = "0.0%"
            /\ InputSummary = ScenarioSummary => html.metrics = <<"9", "7", "2", "77.8%">>

\* the scenario of C8, written to the dashboard file
C8_Witness ==
    /\ dpc = "done"
    /\ InputSummary = ScenarioSummary
    /\ InputTree.dashboard.html.metrics = <<"9", "7", "2", "77.8%">>

\* C9: a missing input never fails the script and degrades to its default:
\* without a summary document the metrics are 0, 0, 0 and 0.0%, without a
\* detail document the detail section is empty, without a screenshot
\* directory there is no screenshot section, without a log directory the
\* log list is empty; the script fails only on a file that exists and
\* does not parse.
C9_MissingInputsDegrade ==
    /\ (~InputTree.summary.exists /\ ~InputTree.report.exists) => dpc # "failed"
    /\ dpc = "failed" =>
          \/ InputTree.summary.exists /\ ~InputTree.summary.valid
          \/ InputTree.report.exists /\ ~InputTree.report.valid
    /\ (Rendered /\ ~InputTree.summary.exists) =>
          /\ html.total_tests = 0 /\ html.passed = 0 /\ html.failed = 0
          /\ html.pass_rate.num = 0
          /\ html.metrics = <<"0", "0", "0", "0.0%">>
    /\ (Rendered /\ ~InputTree.report.exists) => html.test_items = <<>>
    /\ (Rendered /\ ~InputTree.screenshots.exists) =>
          ~html.screenshots_section /\ html.screenshot_items = <<>>
    /\ (dpc # "start" /\ ~InputTree.logs.exists) => loaded.logs = <<>>
    /\ dpc = "done" => InputTree.dashboard.exists /\ InputTree.dashboard.html = html

\* nothing exists, and the dashboard is written with all-zero metrics
C9_Witness ==
    /\ dpc = "done"
    /\ ~InputTree.summary.exists /\ ~InputTree.report.exists
    /\ ~InputTree.screenshots.exists /\ ~InputTree.logs.exists
    /\ InputTree.dashboard.exists
    /\ InputTree.dashboard.html.metrics = <<"0", "0", "0", "0.0%">>
    /\ InputTree.dashboard.html.test_items = <<>>

\* C10: the detail section holds one entry per record of the detail list,
\* the i-th entry showing the i-th record's test_name and status (the
\* defaults "Unknown Test" / "UNKNOWN" for a missing key); nothing is
\* sorted or merged.
C10_OneItemPerRecord ==
    Rendered =>
        /\ Len(html.test_items) = Len(InputDetails)
        /\ \A i \in 1..Len(InputDetails) :
            /\ html.test_items[i].test_name
                 = Get(InputDetails[i], "test_name", "Unknown Test")
            /\ html.test_items[i].status = Get(InputDetails[i], "status", "UNKNOWN")

\* two records of one test_name, FAILED before PASSED, give two entries in
\* that order
C10_Witness ==
    /\ dpc = "done"
    /\ Len(InputDetails) = 2
    /\ InputDetails[1].keys = {"test_name", "status"}
    /\ InputDetails[2].keys = {"test_name", "status"}
    /\ InputDetails[1].test_name = InputDetails[2].test_name
    /\ Len(html.test_items) = 2
    /\ html.test_items[1].test_name = html.test_items[2].test_name
    /\ html.test_items[1].status = "FAILED" /\ html.test_items[2].status = "PASSED"

(***************************************************************************)
(* Claims about the screenshot gallery                                     *)
(***************************************************************************)
\* the screenshot paths the script discovered, in discovery order
InputShots ==
    IF InputTree.screenshots.exists THEN InputTree.screenshots.files ELSE <<>>

\* C11: for n discovered screenshots the rendered screenshot section holds
\* exactly min(n, 12) entries, and they are the first min(n, 12) of the
\* discovered list in discovery order; with no screenshot there is no
\* screenshot section at all.
C11_FirstTwelveScreenshots ==
    Rendered =>
        LET n == Len(InputShots)
            k == IF n < 12 THEN n ELSE 12
        IN  /\ Len(html.screenshot_items) = k
            /\ \A i \in 1..k : html.screenshot_items[i] = InputShots[i]
            /\ html.screenshots_section <=> n > 0
            /\ n = 0 => html.screenshot_items = <<>>

\* fifteen screenshots discovered, in backward listing order: the twelve
\* shown are the first twelve discovered
C11_Witness ==
    /\ dpc = "done"
    /\ Len(InputShots) = 15
    /\ InputShots[1] = "shot15.png"
    /\ Len(html.screenshot_items) = 12
    /\ html.screenshot_items[12] = "shot4.png"
    /\ fs["base"].dashboard.html.screenshot_items = html.screenshot_items

(***************************************************************************)
(* Claims about rendering twice                                            *)
(***************************************************************************)
\* two rendered documents that agree everywhere but in the timestamp line
SameButTimestamp(d1, d2) == [d1 EXCEPT !.generated = 0] = [d2 EXCEPT !.generated = 0]

\* C12: rendering is idempotent with respect to its inputs: the document
\* rendered now and the document an earlier call rendered from the same
\* input files (the one on disk) are identical except for the timestamp
\* line, and a call of the renderer leaves its input as it was.
C12_RenderIdempotent ==
    /\ [](Rendered /\ fs["base"].dashboard.exists
            => SameButTimestamp(html, fs["base"].dashboard.html))
    /\ [][dpc = "loaded" /\ dpc' # "loaded"
            => loaded' = loaded /\ fs' = fs]_vars

\* a second call, one second after the first, over two screenshots and a
\* detail record: the new document differs from the one on disk in the
\* timestamp
C12_Witness ==
    /\ dpc = "rendered"
    /\ fs["base"].dashboard.exists
    /\ fs["base"].dashboard.html.generated = 0
    /\ html.generated = 1
    /\ Len(html.screenshot_items) = 2
    /\ Len(html.test_items) = 1
    /\ loaded = load_test_results(fs["base"])

(***************************************************************************)
(* Claims about the special commands of the CLI (SpecRun)                  *)
(***************************************************************************)
\* main() took the --dashboard-only branch and has returned
DashboardOnlyExited == pc = "exited" /\ args.dashboard_only /\ ~args.list

\* no summary document and no detail document anywhere
NoPriorReports == \A d \in Dirs : ~fs[d].summary.exists /\ ~fs[d].report.exists

\* the tree holds a dashboard whose metrics are all zero
ZeroDashboard(tree) ==
    /\ tree.dashboard.exists
    /\ tree.dashboard.html.total_tests = 0
    /\ tree.dashboard.html.passed = 0
    /\ tree.dashboard.html.failed = 0
    /\ tree.dashboard.html.metrics = <<"0", "0", "0", "0.0%">>
    /\ tree.dashboard.html.results_chart = <<"0", "0">>

\* run_tests was not entered and no engine process was started
EngineNeverInvoked ==
    /\ result = NoResult /\ cmd = <<>>
    /\ ~Printed("Starting AQX Trading Platform Tests")
    /\ ~Printed("Test Output:")

ListExited == pc = "exited" /\ args.list

\* C14: with --list the CLI prints the test-subset names and the
\* discovered test identifiers and then exits without running any test and
\* without rendering the dashboard, whatever the other flags are: the only
\* engine command it issues is the collect-only one, run_tests and
\* generate_dashboard are not entered, and no dashboard is written.
C14_ListOnlyLists ==
    ListExited =>
        /\ \A t \in TestTypes : Printed("  - " \o t)
        /\ ~result.raised =>
              \A i \in 1..result.collected : Printed("  - " \o TestId(i))
        /\ cmd = list_cmd
        /\ \E i \in 1..Len(cmd) : cmd[i] = "--collect-only"
        /\ ~Printed("Starting AQX Trading Platform Tests")
        /\ ~Printed("Test Output:")
        /\ ~Printed("Generating test dashboard...")
        /\ \A d \in Dirs : ~fs[d].dashboard.exists
        /\ success = FALSE
        /\ exit_code = 0

\* --list together with --dashboard-only, --parallel and --type smoke: the
\* ten test methods of the suite are listed
C14_Witness ==
    /\ ListExited
    /\ args.dashboard_only /\ args.parallel /\ args.type = "smoke"
    /\ ~result.raised /\ result.collected = SUITE_TESTS
    /\ Printed("  - " \o TestId(SUITE_TESTS))
    /\ \A d \in Dirs : ~fs[d].dashboard.exists

(***************************************************************************)
(* Claims about the suite (SpecSuite)                                      *)
(***************************************************************************)
\* the session is over: every test was executed and the hook has run
SuiteComplete == tpc = "done" /\ spc \in {"finished", "raised"}

RECURSIVE AllRecorded(_)
\* every record add_result was handed during the run, in order
AllRecorded(os) ==
    IF os = <<>> THEN <<>> ELSE Head(os).recorded \o AllRecorded(Tail(os))

\* C15: Result Records held during a run are serialized to disk at run
\* end: after a complete run of the suite reports/test_report.json exists
\* and its test_results list holds one record for every outcome recorded
\* via add_result during that run.
C15_RecordsSerializedAtRunEnd ==
    (SuiteComplete /\ AllRecorded(outcomes) # <<>>) =>
        /\ fs["base"].report.exists /\ fs["base"].report.valid
        /\ Get(fs["base"].report.doc, "test_results", <<>>) = AllRecorded(outcomes)

\* C17: in every execution of a test method add_result is called exactly
\* once: with status PASSED when the body completed and the method
\* returns, with status FAILED when the body raised, and after a FAILED
\* record the exception is raised again, so that the engine files a
\* failure for exactly the executions that recorded FAILED.
C17_OneRecordPerExecution ==
    /\ tpc = "returned" =>
          /\ Len(results) = 1 /\ results[1].status = "PASSED"
          /\ results[1].test_name = CurrentTest
          /\ ~raising
    /\ tpc = "raised_out" =>
          /\ Len(results) = 1 /\ results[1].status = "FAILED"
          /\ results[1].test_name = CurrentTest
          /\ raising
    /\ tpc \in {"act", "assert", "record", "except"} => results = <<>>
    /\ \A i \in 1..Len(outcomes) :
          /\ outcomes[i].outcome = "passed" =>
                Len(outcomes[i].recorded) = 1 /\ outcomes[i].recorded[1].status = "PASSED"
          /\ outcomes[i].outcome = "failed" =>
                Len(outcomes[i].recorded) = 1 /\ outcomes[i].recorded[1].status = "FAILED"
          /\ outcomes[i].outcome = "error" => outcomes[i].recorded = <<>>

\* a session of two executed test methods: the first raised in an
\* assertion and recorded FAILED, the second completed and recorded PASSED
C17_Witness ==
    /\ tpc = "returned"
    /\ Len(outcomes) = 1
    /\ outcomes[1].outcome = "failed"
    /\ outcomes[1].recorded[1].status = "FAILED"
    /\ results[1].status = "PASSED"
    /\ results[1].test_name = "test_2"

(***************************************************************************)
(* Claims about the writers of the summary document (SpecEngine)           *)
(***************************************************************************)
\* C16: within one run reports/test_summary.json is written by exactly one
\* process, also when the engine is run with worker processes that each
\* run the session-finish hook: no two processes ever write it.
C16_SingleWriter == Cardinality(writers) <= 1

(***************************************************************************)
(* Claims about calling generate_report again (SpecReporter)               *)
(***************************************************************************)
\* the last report was built from the records the collector holds now: no
\* add_result since (records are only ever appended)
ReportIsCurrent == ReportReturned /\ report.test_results = results

\* two reports with the same counts, pass rate and record list
SameReport(r1, r2) ==
    /\ r1.summary.total_tests = r2.summary.total_tests
    /\ r1.summary.passed = r2.summary.passed
    /\ r1.summary.failed = r2.summary.failed
    /\ r1.summary.pass_rate = r2.summary.pass_rate
    /\ r1.test_results = r2.test_results

\* C18: generate_report is non-destructive and repeatable: a call leaves
\* self.results and self.start_time unchanged, and a call that follows
\* another with no add_result in between returns the same total_tests,
\* passed, failed, pass_rate and test_results.
C18_GenerateReportRepeatable ==
    [][generate_report =>
          /\ results' = results
          /\ start_time' = start_time
          /\ (ReportIsCurrent /\ rpc' = "live") => SameReport(report, report')]_vars

\* a report returned one second after the second of two records was
\* added: its counts are those of the records, which are all still held
C18_Witness ==
    /\ ReportIsCurrent /\ rpc = "live"
    /\ Len(results) = 2
    /\ results[1].status = "PASSED" /\ results[2].status = "FAILED"
    /\ results[2].timestamp = 0
    /\ report.summary.end_time = 1
    /\ report.summary.pass_rate = "50.0%"
    /\ fs["base"].report.doc = report
    /\ clock = 1

(***************************************************************************)
(* Claims about sessions one after another (SpecSessions)                  *)
(***************************************************************************)
\* C19: the summary document is overwritten, last write wins: after any
\* sequence of completed engine sessions reports/test_summary.json holds
\* exactly the summary of the session that finished last, and nothing of
\* an earlier session.
C19_LastWriteWins ==
    spc = "finished" =>
        fs["base"].summary =
            JsonFile(session_summary(testscollected, testsfailed, exitstatus, clock))

\* the third session in a directory that held a stale summary: one test,
\* failed, and that is what the document says
C19_Witness ==
    /\ spc = "finished" /\ clock = 2
    /\ testscollected = 1 /\ testsfailed = 1
    /\ fs["base"].summary.valid
    /\ fs["base"].summary.doc.total_tests = 1
    /\ fs["base"].summary.doc.failed = 1
    /\ fs["base"].summary.doc.passed = 0
    /\ fs["base"].summary.doc.end_time = 2

(***************************************************************************)
(* Claims about the engine invocation run_tests builds (SpecRun)           *)
(***************************************************************************)
\* run_tests has built cmd and env
InvocationBuilt == Printed("Starting AQX Trading Platform Tests")

\* cmd carries the marker option "-m <test_type>"
MarkerOption == \E i \in 1..(Len(cmd) - 1) : cmd[i] = "-m" /\ cmd[i + 1] = args.type

\* cmd carries a "-m" after "python -m pytest"
AnyMarkerOption == \E i \in 4..Len(cmd) : cmd[i] = "-m"

\* C20: the engine invocation carries exactly what run_tests was given:
\* the marker option "-m <test_type>" iff test_type is not "all", the
\* option "-n auto" iff parallel, BROWSER set to the browser, and HEADLESS
\* set to "true" whenever headless is true.
C20_InvocationCarriesArguments ==
    InvocationBuilt =>
        /\ MarkerOption <=> args.type # "all"
        /\ AnyMarkerOption <=> args.type # "all"
        /\ Parallel(cmd) <=> args.parallel
        /\ (\E i \in 1..Len(cmd) : cmd[i] = "-n") <=> args.parallel
        /\ "BROWSER" \in env.keys /\ env.BROWSER = args.browser
        /\ args.headless => "HEADLESS" \in env.keys /\ env.HEADLESS = "true"
        /\ SubSeq(cmd, 1, 3) = <<"python", "-m", "pytest">>

\* --type smoke --browser firefox --headless --parallel, started with
\* HEADLESS=false in the environment
C20_Witness ==
    /\ pc = "invoking"
    /\ args.type = "smoke" /\ args.browser = "firefox"
    /\ args.headless /\ args.parallel
    /\ Get(osenv, "HEADLESS", "") = "false"
    /\ MarkerOption /\ Parallel(cmd)
    /\ env.BROWSER = "firefox" /\ env.HEADLESS = "true"

(***************************************************************************)
(* Claims about the order methods (SpecTrading)                            *)
(***************************************************************************)
\* an order method has been called
OrderPlaced == mock_orders # <<>>

LastOrder == mock_orders[Len(mock_orders)]

\* C21: for every symbol and quantity place_buy_order returns a result
\* with status "success" and type "buy", place_sell_order one with status
\* "success" and type "sell", the result's symbol being the requested one,
\* and the call has appended one order with status "executed" and the
\* matching side and symbol to mock_orders.
C21_OrdersSucceed ==
    OrderPlaced =>
        /\ order_result.status = "success"
        /\ order_result.type = LastOrder.order_type
        /\ order_result.symbol = LastOrder.symbol
        /\ LastOrder.status = "executed"

\* C24: any two distinct orders placed on one AQXTradingPage have
\* different order_id values, also when placed within the same second.
C24_OrderIdsUnique ==
    \A i, j \in 1..Len(mock_orders) :
        i # j => mock_orders[i].order_id # mock_orders[j].order_id

(***************************************************************************)
(* Claims about the style of a detail entry (SpecStyles)                   *)
(***************************************************************************)
\* C22: a detail entry gets the passed style iff the record's status is
\* exactly "PASSED"; every other status (FAILED, UNKNOWN, a missing status,
\* any other string) gets the failed style; a record without test_name or
\* status is shown as "Unknown Test" / "UNKNOWN", and rendering does not
\* fail.
C22_PassedStyleIffPassed ==
    /\ dpc # "failed"
    /\ Rendered =>
        /\ Len(html.test_items) = Len(InputDetails)
        /\ \A i \in 1..Len(InputDetails) :
            LET rec  == InputDetails[i]
                item == html.test_items[i]
            IN  /\ item.status_class \in {"status-passed", "status-failed"}
                /\ item.status_class = "status-passed"
                      <=> ("status" \in rec.keys /\ rec.status = "PASSED")
                /\ "status" \notin rec.keys => item.status = "UNKNOWN"
                /\ "test_name" \notin rec.keys => item.test_name = "Unknown Test"
                /\ "status" \in rec.keys => item.status = rec.status
                /\ "test_name" \in rec.keys => item.test_name = rec.test_name

\* an empty record and a record of status "passed": both in the failed
\* style, the first as "Unknown Test" / "UNKNOWN"
C22_Witness ==
    /\ dpc = "done"
    /\ Len(InputDetails) = 2
    /\ InputDetails[1].keys = {}
    /\ InputDetails[2].keys = {"test_name", "status"} /\ InputDetails[2].status = "passed"
    /\ html.test_items[1].test_name = "Unknown Test"
    /\ html.test_items[1].status = "UNKNOWN"
    /\ html.test_items[1].status_class = "status-failed"
    /\ html.test_items[2].status_class = "status-failed"

(***************************************************************************)
(* Claims about where the dashboard is rendered (SpecRun)                  *)
(***************************************************************************)
\* run_tests has rendered the dashboard after an engine run whose session
\* wrote its summary document
RenderedAfterRun ==
    /\ pc \in {"summary", "returned", "exited"}
    /\ InvocationBuilt
    /\ ~result.raised /\ result.finished
    /\ Printed("Dashboard generated successfully")

\* C23: the dashboard run_tests renders after an engine run shows the
\* counts of the summary document that run wrote, whatever directory the
\* orchestrator was started from: it is rendered from and into
\* base_dir/reports, where the engine wrote and where print_summary says
\* the dashboard is.
C23_DashboardShowsThisRun ==
    RenderedAfterRun =>
        /\ fs["base"].dashboard.exists
        /\ fs["base"].dashboard.html.total_tests = result.collected
        /\ fs["base"].dashboard.html.failed = result.failed
        /\ fs["base"].dashboard.html.passed = result.collected - result.failed

(***************************************************************************)
(* Claims about the environment handed to the engine (SpecRun)             *)
(***************************************************************************)
\* C25: when run_tests is called with headless=False the environment
\* passed to the engine does not have HEADLESS = "true", whatever the
\* orchestrator's own environment holds: the toggle the engine sees is
\* decided by the headless argument alone.
C25_HeadlessByArgumentAlone ==
    InvocationBuilt =>
        (Get(env, "HEADLESS", "") = "true" <=> args.headless)

====
